---- MODULE Spec2Model ----
(***************************************************************************)
(* Model of clean_transaction_data (src/main.py), the deduplication and    *)
(* proportional discount allocation over a transaction table.              *)
(*                                                                         *)
(* A table is [columns, rows]: the set of column names and the sequence of *)
(* rows, each row a function from the column names to cell values.         *)
(* Strings that the code concatenates or sorts (order_number, item_ref_id, *)
(* unique_key) are sequences of character codes.  A nullable cell is NaN   *)
(* (the empty sequence) or <<v>>.  Amounts are integers; the quotients the *)
(* code computes in floating point are exact fractions [num, den].         *)
(***************************************************************************)
EXTENDS Integers, Sequences, FiniteSets, TLC

VARIABLES df, pc, result, discount_rows, base_rows

vars == <<df, pc, result, discount_rows, base_rows>>

MaxRows == 3

----------------------------------------------------------------------------
(* Cells and columns *)

NaN == <<>>

RequiredColumns ==
  {"created_at_myt", "order_number", "customer_email", "CarrierCode",
   "item_name", "item_ref_id", "item_quantity", "myr_item_unit_amount",
   "myr_total_amount", "myr_paid_amount", "myr_points_redeemed_value",
   "discountName"}

\* Columns whose cells may be absent in the modelled inputs.
NullableColumns == {"myr_points_redeemed_value", "discountName", "customer_email"}

notna(c, v) == c \notin NullableColumns \/ v # NaN

Underscore == 95

\* Lexicographic order on strings by character code (Python str comparison).
StrLess(a, b) ==
  \E k \in 1..Len(b) :
     /\ k - 1 <= Len(a)
     /\ \A j \in 1..(k - 1) : a[j] = b[j]
     /\ (k = Len(a) + 1 \/ a[k] < b[k])

----------------------------------------------------------------------------
(* Exact arithmetic *)

RECURSIVE SumSeq(_)
SumSeq(s) == IF s = <<>> THEN 0 ELSE Head(s) + SumSeq(Tail(s))

\* Python round(): round n/d (d > 0) to the nearest integer, ties to even.
RoundHalfEven(n, d) ==
  LET q == n \div d
      r == n % d
  IN  IF 2 * r < d THEN q
      ELSE IF 2 * r > d THEN q + 1
      ELSE IF q % 2 = 0 THEN q ELSE q + 1

----------------------------------------------------------------------------
(* Line 21: df['unique_key'] = order_number.astype(str) + '_' + item_ref_id.astype(str) *)

unique_key(r) == r["order_number"] \o <<Underscore>> \o r["item_ref_id"]

AssignUniqueKey(t) ==
  [columns |-> t.columns \cup {"unique_key"},
   rows    |-> [k \in DOMAIN t.rows |->
                  [c \in t.columns \cup {"unique_key"} |->
                     IF c = "unique_key" THEN unique_key(t.rows[k])
                     ELSE t.rows[k][c]]]]

(* Lines 24-29: partition on discountName *)

DiscountRows(rows) == SelectSeq(rows, LAMBDA r : r["discountName"] # NaN)

NoDiscountRows(rows) == SelectSeq(rows, LAMBDA r : r["discountName"] = NaN)

BaseRows(rows) ==
  IF Len(NoDiscountRows(rows)) = 0 THEN rows ELSE NoDiscountRows(rows)

(* Line 32: groupby('unique_key').first().reset_index() *)

RECURSIVE SortKeys(_)
SortKeys(S) ==
  IF S = {} THEN <<>>
  ELSE LET m == CHOOSE x \in S : \A y \in S \ {x} : StrLess(x, y)
       IN  <<m>> \o SortKeys(S \ {m})

\* first(): per column, the first non-null value of the group, else null.
GroupFirst(group, c) ==
  LET present == SelectSeq(group, LAMBDA r : notna(c, r[c]))
  IN  IF present = <<>> THEN NaN ELSE present[1][c]

GroupByFirst(rows, columns) ==
  LET keys == SortKeys({rows[k]["unique_key"] : k \in DOMAIN rows})
  IN  [g \in DOMAIN keys |->
         LET group == SelectSeq(rows, LAMBDA r : r["unique_key"] = keys[g])
         IN  [c \in columns |->
                IF c = "unique_key" THEN keys[g] ELSE GroupFirst(group, c)]]

(* Lines 36-101: one loop iteration *)

\* Lines 41-44, 65-68
MatchingDiscount(drows, order_number, item_ref_id) ==
  SelectSeq(drows, LAMBDA d : d["order_number"] = order_number
                              /\ d["item_ref_id"] = item_ref_id)

OrderItemsAnyOrder(brows, order_number) == brows

\* Line 47
OrderItems(brows, order_number) ==
  SelectSeq(brows, LAMBDA b : b["order_number"] = order_number)

OrderItemsTotalUnitOnly(order_items) ==
  SumSeq([k \in DOMAIN order_items |-> order_items[k]["myr_item_unit_amount"]])

\* Line 50
OrderItemsTotal(order_items) ==
  SumSeq([k \in DOMAIN order_items |->
            order_items[k]["myr_item_unit_amount"] * order_items[k]["item_quantity"]])

TotalOrderDiscountUngated(order_items, drows, order_number) ==
  SumSeq([k \in DOMAIN order_items |->
            order_items[k]["myr_item_unit_amount"] * order_items[k]["item_quantity"]
            - order_items[k]["myr_paid_amount"]])

\* Lines 61-71
TotalOrderDiscount(order_items, drows, order_number) ==
  SumSeq([k \in DOMAIN order_items |->
            IF Len(MatchingDiscount(drows, order_number,
                                    order_items[k]["item_ref_id"])) > 0
            THEN order_items[k]["myr_item_unit_amount"] * order_items[k]["item_quantity"]
                 - order_items[k]["myr_paid_amount"]
            ELSE 0])

ItemProportionEvenWhenZero(item_total, order_items_total) ==
  IF order_items_total > 0
  THEN [num |-> item_total, den |-> order_items_total]
  ELSE [num |-> 1, den |-> 1]

\* Line 58: item_total / order_items_total if order_items_total > 0 else 0
ItemProportion(item_total, order_items_total) ==
  IF order_items_total > 0
  THEN [num |-> item_total, den |-> order_items_total]
  ELSE [num |-> 0, den |-> 1]

\* Line 74
AllocatedDiscount(total_order_discount, item_proportion) ==
  [num |-> total_order_discount * item_proportion.num, den |-> item_proportion.den]

\* Line 77
PointsRedeemed(base_row) ==
  IF base_row["myr_points_redeemed_value"] # NaN
  THEN base_row["myr_points_redeemed_value"][1] ELSE 0

FinalPaidAmountNoPoints(item_total, allocated_discount, points_redeemed) ==
  [num |-> item_total * allocated_discount.den - allocated_discount.num,
   den |-> allocated_discount.den]

\* Line 80
FinalPaidAmount(item_total, allocated_discount, points_redeemed) ==
  [num |-> item_total * allocated_discount.den - allocated_discount.num
           - points_redeemed * allocated_discount.den,
   den |-> allocated_discount.den]

\* Line 100: round(item_proportion * 100, 2), in hundredths of a percent
ItemProportionPct(item_proportion) ==
  RoundHalfEven(item_proportion.num * 10000, item_proportion.den)

\* Line 83
DiscountName(discount_info) ==
  IF Len(discount_info) > 0 THEN discount_info[1]["discountName"][1] ELSE ""

CleanedRecord(base_row, brows, drows) ==
  LET order_number == base_row["order_number"]
      item_ref_id == base_row["item_ref_id"]
      discount_info == MatchingDiscount(drows, order_number, item_ref_id)
      order_items == OrderItems(brows, order_number)
      order_items_total == OrderItemsTotal(order_items)
      item_price == base_row["myr_item_unit_amount"]
      quantity == base_row["item_quantity"]
      item_total == item_price * quantity
      item_proportion == ItemProportion(item_total, order_items_total)
      total_order_discount == TotalOrderDiscount(order_items, drows, order_number)
      allocated_discount == AllocatedDiscount(total_order_discount, item_proportion)
      points_redeemed == PointsRedeemed(base_row)
  IN  [created_at_myt      |-> base_row["created_at_myt"],
       order_number        |-> order_number,
       customer_email      |-> base_row["customer_email"],
       CarrierCode         |-> base_row["CarrierCode"],
       item_name           |-> base_row["item_name"],
       item_ref_id         |-> item_ref_id,
       item_quantity       |-> quantity,
       item_unit_price     |-> item_price,
       item_total_price    |-> item_total,
       discount_name       |-> DiscountName(discount_info),
       discount_amount     |-> allocated_discount,
       points_redeemed     |-> points_redeemed,
       final_paid_amount   |-> FinalPaidAmount(item_total, allocated_discount,
                                               points_redeemed),
       order_total         |-> base_row["myr_total_amount"],
       item_proportion_pct |-> ItemProportionPct(item_proportion)]

\* The columns one loop iteration reads, in the order it reads them.
\* myr_paid_amount is read (line 70) only when some item of the order has a
\* matching discount row.
IterationReads(base_row, brows, drows) ==
  LET order_items == OrderItems(brows, base_row["order_number"])
      anyMatch == \E k \in DOMAIN order_items :
                     Len(MatchingDiscount(drows, base_row["order_number"],
                                          order_items[k]["item_ref_id"])) > 0
  IN  <<"order_number", "item_ref_id", "myr_item_unit_amount", "item_quantity">>
      \o (IF anyMatch THEN <<"myr_paid_amount">> ELSE <<>>)
      \o <<"myr_points_redeemed_value", "created_at_myt", "customer_email",
           "CarrierCode", "item_name", "myr_total_amount">>

RECURSIVE LoopReads(_, _, _)
LoopReads(k, brows, drows) ==
  IF k > Len(brows) THEN <<>>
  ELSE IterationReads(brows[k], brows, drows) \o LoopReads(k + 1, brows, drows)

\* The outcome of a call: the value returned or the KeyError raised, the
\* caller's table after the call, and the two partitions as last assigned.
Outcome(status, column, records, table, drows, brows) ==
  [status |-> status, column |-> column, records |-> records,
   df |-> table, discount_rows |-> drows, base_rows |-> brows]

clean_transaction_data(t) ==
  IF "order_number" \notin t.columns
  THEN Outcome("KeyError", "order_number", <<>>, t, <<>>, <<>>)
  ELSE IF "item_ref_id" \notin t.columns
  THEN Outcome("KeyError", "item_ref_id", <<>>, t, <<>>, <<>>)
  ELSE
    LET t1 == AssignUniqueKey(t) IN
    IF "discountName" \notin t1.columns
    THEN Outcome("KeyError", "discountName", <<>>, t1, <<>>, <<>>)
    ELSE
      LET drows == DiscountRows(t1.rows)
          brows == GroupByFirst(BaseRows(t1.rows), t1.columns)
          missing == SelectSeq(LoopReads(1, brows, drows),
                               LAMBDA c : c \notin t1.columns)
      IN  IF missing # <<>>
          THEN Outcome("KeyError", missing[1], <<>>, t1, drows, brows)
          ELSE Outcome("ok", "",
                       [k \in DOMAIN brows |-> CleanedRecord(brows[k], brows, drows)],
                       t1, drows, brows)

----------------------------------------------------------------------------
(* Input tables *)

A   == <<65>>
B   == <<66>>
A_B == <<65, 95, 66>>
C   == <<67>>
D   == <<68>>
B_C == <<66, 95, 67>>

Row(o, i, q, u, paid, pts, dn, tot, email, name) ==
  [created_at_myt            |-> "2024-01-01",
   order_number              |-> o,
   customer_email            |-> email,
   CarrierCode               |-> "AK",
   item_name                 |-> name,
   item_ref_id               |-> i,
   item_quantity             |-> q,
   myr_item_unit_amount      |-> u,
   myr_total_amount          |-> tot,
   myr_paid_amount           |-> paid,
   myr_points_redeemed_value |-> pts,
   discountName              |-> dn]

Restrict(r, columns) == [c \in columns |-> r[c]]

Tables(R, columns) ==
  {[columns |-> columns, rows |-> [k \in DOMAIN s |-> Restrict(s[k], columns)]] :
     s \in UNION {[1..n -> R] : n \in 0..MaxRows}}

\* Identities and discount markers vary; amounts are fixed.
KeyRows ==
  {Row(o, i, 1, 2, 1, NaN, dn, 2, <<"a@x">>, "item") :
     o \in {A, A_B}, i \in {C, B_C}, dn \in {NaN, <<"">>, <<"SALE10">>}}

\* Two orders, item values and price/paid gaps that differ between rows.
AllocRows ==
  {Row(p[1], p[2], v[1], v[2], v[3], NaN, dn, 5, <<"a@x">>, "item") :
     p \in {<<A, C>>, <<A, D>>, <<B, C>>},
     v \in {<<1, 2, 1>>, <<3, 1, 0>>},
     dn \in {NaN, <<"SALE10">>}}

\* One order with free items, refunds (negative paid amount) and negative prices.
EdgeRows ==
  {Row(A, i, v[1], v[2], v[3], NaN, dn, 1, <<"a@x">>, "item") :
     i \in {C, D},
     v \in {<<1, 0, -1>>, <<1, -1, 0>>, <<1, 1, 0>>, <<2, 1, 1>>},
     dn \in {NaN, <<"SALE10">>}}

\* One order, points present or absent.
PointsRows ==
  {Row(A, i, v[1], v[2], v[3], pts, dn, 4, <<"a@x">>, "item") :
     i \in {C, D},
     v \in {<<1, 2, 1>>, <<2, 1, 0>>},
     pts \in {NaN, <<1>>},
     dn \in {NaN, <<"SALE10">>}}

\* Duplicate rows of one or two items whose fields differ or are absent.
DedupRows ==
  {Row(A, i, v[1], v[2], v[3], pts, dn, v[4], email, v[5]) :
     i \in {C},
     v \in {<<1, 2, 1, 2, "item">>, <<2, 3, 4, 6, "item (promo)">>},
     pts \in {NaN, <<1>>, <<2>>},
     email \in {NaN, <<"a@x">>},
     dn \in {NaN, <<"SALE10">>}}

\* Tables with every required column, or with required columns missing.
SchemaRows ==
  {Row(A, i, 1, 2, 1, NaN, dn, 2, <<"a@x">>, "item") :
     i \in {C, D}, dn \in {NaN, <<"SALE10">>}}

MaxMissing == 1

ColumnSets ==
  {RequiredColumns \ m : m \in {x \in SUBSET RequiredColumns : Cardinality(x) <= MaxMissing}}

InitCommon ==
  /\ pc = "start"
  /\ result = [status |-> "none", column |-> "", records |-> <<>>]
  /\ discount_rows = <<>>
  /\ base_rows = <<>>

InitKeys == df \in Tables(KeyRows, RequiredColumns) /\ InitCommon

InitAlloc == df \in Tables(AllocRows, RequiredColumns) /\ InitCommon

InitEdge == df \in Tables(EdgeRows, RequiredColumns) /\ InitCommon

InitPoints == df \in Tables(PointsRows, RequiredColumns) /\ InitCommon

InitDedup == df \in Tables(DedupRows, RequiredColumns) /\ InitCommon

InitSchema ==
  /\ df \in UNION {Tables(SchemaRows, cols) : cols \in ColumnSets}
  /\ InitCommon

----------------------------------------------------------------------------
(* Line 120: cleaned_df = clean_transaction_data(df) *)

Clean ==
  /\ pc = "start"
  /\ LET out == clean_transaction_data(df)
     IN  /\ result' = [status |-> out.status, column |-> out.column,
                        records |-> out.records]
         /\ df' = out.df
         /\ discount_rows' = out.discount_rows
         /\ base_rows' = out.base_rows
  /\ pc' = "done"

Next == Clean

SpecKeys == InitKeys /\ [][Next]_vars

SpecAlloc == InitAlloc /\ [][Next]_vars

SpecEdge == InitEdge /\ [][Next]_vars

SpecPoints == InitPoints /\ [][Next]_vars

SpecDedup == InitDedup /\ [][Next]_vars

SpecSchema == InitSchema /\ [][Next]_vars

----------------------------------------------------------------------------
(* Helpers for stating properties *)

Done == pc = "done"

Returned == pc = "done" /\ result.status = "ok"

Range(s) == {s[k] : k \in DOMAIN s}

SameItemKey(r, o, i) == r["order_number"] = o /\ r["item_ref_id"] = i

\* Indices of the output records of order o.
RecordsOf(o) == {k \in DOMAIN result.records : result.records[k].order_number = o}

\* Indices of the deduplicated items of order o.
ItemsOf(o) == {k \in DOMAIN base_rows : base_rows[k]["order_number"] = o}

ItemValue(k) == base_rows[k]["myr_item_unit_amount"] * base_rows[k]["item_quantity"]

HasDiscountRow(k) ==
  \E j \in DOMAIN discount_rows :
     SameItemKey(discount_rows[j], base_rows[k]["order_number"], base_rows[k]["item_ref_id"])

RECURSIVE SumOver(_, _)
SumOver(S, f) ==
  IF S = {} THEN 0
  ELSE LET x == CHOOSE y \in S : TRUE IN f[x] + SumOver(S \ {x}, f)

orderItemValueSum(o) == SumOver(ItemsOf(o), [k \in ItemsOf(o) |-> ItemValue(k)])

orderDiscountTotal(o) ==
  SumOver(ItemsOf(o),
          [k \in ItemsOf(o) |->
             IF HasDiscountRow(k)
             THEN ItemValue(k) - base_rows[k]["myr_paid_amount"] ELSE 0])

Orders == {result.records[k].order_number : k \in DOMAIN result.records}

\* Sum of the discount_amount fractions of the records in K, as a fraction.
RECURSIVE DiscountSum(_)
DiscountSum(K) ==
  IF K = {} THEN [num |-> 0, den |-> 1]
  ELSE LET k == CHOOSE y \in K : TRUE
           a == result.records[k].discount_amount
           b == DiscountSum(K \ {k})
       IN  [num |-> a.num * b.den + b.num * a.den, den |-> a.den * b.den]

\* The first row, in input order, among the rows that deduplication groups
\* (the base rows, or every row when no row is a base row) with the key (o, i).
FirstBaseRow(o, i) ==
  LET rows == BaseRows(df.rows)
      k == CHOOSE j \in DOMAIN rows :
             /\ SameItemKey(rows[j], o, i)
             /\ \A h \in 1..(j - 1) : ~SameItemKey(rows[h], o, i)
  IN  rows[k]

----------------------------------------------------------------------------
(* C1: the output holds exactly one record for every (order_number,        *)
(* item_ref_id) pair that occurs in any input row.                         *)
OneRecordPerPair ==
  Returned =>
    \A k \in DOMAIN df.rows :
       Cardinality({j \in DOMAIN result.records :
                      /\ result.records[j].order_number = df.rows[k]["order_number"]
                      /\ result.records[j].item_ref_id = df.rows[k]["item_ref_id"]}) = 1

(* C2: for every order whose deduplicated items have a positive summed     *)
(* value, the discount_amount of the order's records sums to the order's   *)
(* orderDiscountTotal.                                                     *)
Conservation ==
  Returned =>
    \A o \in Orders :
       orderItemValueSum(o) > 0 =>
         DiscountSum(RecordsOf(o)).num
           = orderDiscountTotal(o) * DiscountSum(RecordsOf(o)).den

ConservationWitness ==
  /\ Returned
  /\ \E o \in Orders :
        /\ orderItemValueSum(o) > 0
        /\ orderDiscountTotal(o) > 0
        /\ Cardinality(RecordsOf(o)) >= 2
        /\ \E k \in ItemsOf(o) : ~HasDiscountRow(k)

(* C3: in an order whose deduplicated items sum to value 0 while its       *)
(* orderDiscountTotal is positive, every record has discount_amount 0 and  *)
(* item_proportion_pct 0.                                                  *)
DropCase ==
  Returned =>
    \A o \in Orders :
       (orderItemValueSum(o) = 0 /\ orderDiscountTotal(o) > 0) =>
         \A k \in RecordsOf(o) :
            /\ result.records[k].discount_amount.num = 0
            /\ result.records[k].item_proportion_pct = 0

DropCaseWitness ==
  /\ Returned
  /\ \E o \in Orders :
        /\ orderItemValueSum(o) = 0
        /\ orderDiscountTotal(o) > 0
        /\ \E k \in RecordsOf(o) : result.records[k].item_total_price # 0

(* C4: every field of an output record comes from the first row, in input  *)
(* order, among the deduplicated rows with the record's ItemKey, also when *)
(* that row has an absent value.                                           *)
FirstRowWins ==
  Returned =>
    \A k \in DOMAIN result.records :
       LET rec == result.records[k]
           first == FirstBaseRow(rec.order_number, rec.item_ref_id)
       IN  /\ rec.item_quantity = first["item_quantity"]
           /\ rec.item_unit_price = first["myr_item_unit_amount"]
           /\ rec.order_total = first["myr_total_amount"]
           /\ rec.points_redeemed =
                (IF first["myr_points_redeemed_value"] = NaN THEN 0
                 ELSE first["myr_points_redeemed_value"][1])
           /\ rec.created_at_myt = first["created_at_myt"]
           /\ rec.customer_email = first["customer_email"]
           /\ rec.CarrierCode = first["CarrierCode"]
           /\ rec.item_name = first["item_name"]
           /\ base_rows[k]["myr_paid_amount"] = first["myr_paid_amount"]

(* C5: each record's discount is its share of the sum of (item value -     *)
(* paid amount) over exactly the deduplicated items of the order that have *)
(* a discount row with the same (order_number, item_ref_id); items with no *)
(* such row contribute 0, and only the existence of discount rows counts.  *)
DiscountGating ==
  Returned =>
    \A k \in DOMAIN result.records :
       LET o == result.records[k].order_number
           gated == {j \in ItemsOf(o) : HasDiscountRow(j)}
           total == SumOver(gated, [j \in gated |->
                                      ItemValue(j) - base_rows[j]["myr_paid_amount"]])
       IN  orderItemValueSum(o) > 0 =>
             result.records[k].discount_amount.num * orderItemValueSum(o)
               = total * result.records[k].item_total_price
                 * result.records[k].discount_amount.den

DiscountGatingWitness ==
  /\ Returned
  /\ \E o \in Orders :
        /\ orderItemValueSum(o) > 0
        /\ \E j \in ItemsOf(o) :
              /\ ~HasDiscountRow(j)
              /\ ItemValue(j) # base_rows[j]["myr_paid_amount"]
        /\ \E j \in ItemsOf(o) :
              /\ HasDiscountRow(j)
              /\ ItemValue(j) # base_rows[j]["myr_paid_amount"]
              /\ \E d \in DOMAIN discount_rows :
                    /\ SameItemKey(discount_rows[d], o, base_rows[j]["item_ref_id"])
                    /\ discount_rows[d]["myr_paid_amount"] # base_rows[j]["myr_paid_amount"]
                    /\ discount_rows[d]["myr_item_unit_amount"]
                         # base_rows[j]["myr_item_unit_amount"]

SchemaErrorAllOrNothing ==
  (Done /\ RequiredColumns \ df.columns # {}) =>
     /\ result.status = "KeyError"
     /\ result.column \in RequiredColumns \ df.columns
     /\ result.records = <<>>

(* C8: when every unit price and quantity of the input is non-negative,    *)
(* every record has 0 <= item_proportion_pct <= 100 (in hundredths).       *)
ProportionBounds ==
  (Returned /\ \A k \in DOMAIN df.rows :
                  /\ df.rows[k]["myr_item_unit_amount"] >= 0
                  /\ df.rows[k]["item_quantity"] >= 0) =>
     \A k \in DOMAIN result.records :
        /\ 0 <= result.records[k].item_proportion_pct
        /\ result.records[k].item_proportion_pct <= 10000

ProportionBoundsWitness ==
  /\ Returned
  /\ \A k \in DOMAIN df.rows :
        df.rows[k]["myr_item_unit_amount"] >= 0 /\ df.rows[k]["item_quantity"] >= 0
  /\ \E k \in DOMAIN result.records : result.records[k].item_proportion_pct = 10000
  /\ \E k \in DOMAIN result.records : result.records[k].item_proportion_pct = 0
  /\ \E k \in DOMAIN df.rows : df.rows[k]["item_quantity"] > 1

(* C9: every input row is in exactly one of the two partitions of lines    *)
(* 24-25, and it is a discount row exactly when its discount name is       *)
(* present and not the empty string.                                       *)
RowPartitioning ==
  Done =>
    \A k \in DOMAIN df.rows :
       LET inDiscount == df.rows[k] \in Range(discount_rows)
           inBase == df.rows[k] \in Range(NoDiscountRows(df.rows))
       IN  /\ inDiscount # inBase
           /\ inDiscount <=> df.rows[k]["discountName"] \notin {NaN, <<"">>}

(* C10: a call leaves the caller's table unchanged: same rows, same        *)
(* columns, same values.                                                   *)
InputUnchanged == [][df' = df]_vars

====
